---------------------------- MODULE Spec2Model ----------------------------
(***************************************************************************)
(* A model of the voxel sculptor: the shape rasterizer (src/src/shapes.rs), *)
(* the OBJ exporter (src/src/export.rs) and the control panel's frame       *)
(* handler (src/src/ui.rs).                                                 *)
(*                                                                         *)
(* The rasterizer computes in f32.  Its results depend on how f32 rounds   *)
(* (a Cone cell on the exact boundary is kept or dropped by the last bit   *)
(* of dx*dx + dz*dz), so f32 is modelled bit for bit: a value is a sign, a *)
(* 24-bit significand and an exponent, and every operation rounds to       *)
(* nearest, ties to even, as IEEE 754 binary32 does.  Exponents stay far   *)
(* from the binary32 limits for every dimension a u32 slider can hold, so  *)
(* subnormals and overflow are not modelled.                               *)
(***************************************************************************)
EXTENDS Integers, Sequences, FiniteSets, TLC

(***************************************************************************)
(* Bounds of the model.                                                    *)
(***************************************************************************)
\* Largest width, height and depth handed to generate_shape (0 included).
MaxDim == 5

(***************************************************************************)
(* f32 arithmetic (IEEE 754 binary32, round to nearest, ties to even).     *)
(* A finite value is (-1)^s * m * 2^e with m = 0 or 2^23 <= m < 2^24.      *)
(***************************************************************************)
\* Number of significand bits of an f32.
MantBits == 24

F32Zero == [k |-> "num", s |-> 0, m |-> 0, e |-> 0]

F32NaN == [k |-> "nan", s |-> 0, m |-> 0, e |-> 0]

F32Inf(s) == [k |-> "inf", s |-> s, m |-> 0, e |-> 0]

IsZero(a) == a.k = "num" /\ a.m = 0

\* The number of bits of n, for 0 <= n < 2^31.
BitLen4(n) == IF n < 4 THEN (IF n < 2 THEN n ELSE 2) ELSE (IF n < 8 THEN 3 ELSE 4)

BitLen8(n) == IF n < 16 THEN BitLen4(n) ELSE 4 + BitLen4(n \div 16)

BitLen(n) ==
    IF n < 65536
    THEN (IF n < 256 THEN BitLen8(n) ELSE 8 + BitLen8(n \div 256))
    ELSE (IF n < 16777216 THEN 16 + BitLen8(n \div 65536)
                          ELSE 24 + BitLen8(n \div 16777216))

\* The f32 of sign s, significand q1 <= 2^24 and exponent e: a significand
\* that rounding carried up to 2^24 is renormalized.
Renormalized(s, q1, e) ==
    IF q1 = 2^MantBits
    THEN [k |-> "num", s |-> s, m |-> 2^(MantBits - 1), e |-> e + 1]
    ELSE [k |-> "num", s |-> s, m |-> q1, e |-> e]

\* M, of 24 + n bits with n > 0, rounded to 24 bits: to nearest, a tie (the n
\* bits dropped are exactly a half and sticky is not set) to even.
RoundShifted(s, M, E, sticky, n) ==
    CHOOSE r \in
        {Renormalized(s, q1, E + n) :
            q1 \in {M \div 2^n
                    + (IF \/ M % 2^n > 2^(n - 1)
                          \/ M % 2^n = 2^(n - 1) /\ (sticky \/ (M \div 2^n) % 2 = 1)
                       THEN 1 ELSE 0)}} : TRUE

\* The f32 nearest to (-1)^s * (M + f) * 2^E, where 0 <= f < 1 and f > 0 iff
\* sticky: M holds at least 24 + 2 significant bits whenever sticky is set.
RoundBits(s, M, E, sticky) ==
    IF M = 0 THEN F32Zero
    ELSE CHOOSE r \in
            {IF n <= 0
             THEN [k |-> "num", s |-> s, m |-> M * 2^(-n), e |-> E + n]
             ELSE RoundShifted(s, M, E, sticky, n)
             : n \in {BitLen(M) - MantBits}} : TRUE

\* RoundBits on the values of its arguments.  (Here and below, an operator
\* written CHOOSE r \in {F(a) : a \in {x}} : TRUE is F(x) with x evaluated
\* once, whatever the number of times F uses it.)
RoundF32(s, M, E, sticky) ==
    CHOOSE r \in {RoundBits(s, m, e, st) : m \in {M}, e \in {E}, st \in {sticky}} : TRUE

\* `n as f32` for an unsigned integer n.
F32FromU32(n) == RoundF32(0, n, 0, FALSE)

F32Neg(a) == CHOOSE r \in {IF x.k = "nan" THEN x ELSE [x EXCEPT !.s = 1 - x.s] : x \in {a}} : TRUE

\* |a| < |b| for finite a and b.
MagLess(a, b) ==
    IF a.m = 0 THEN b.m # 0
    ELSE IF b.m = 0 THEN FALSE
    ELSE a.e < b.e \/ (a.e = b.e /\ a.m < b.m)

\* b aligned to a, for finite a and b with |a| >= |b| > 0: b's significand
\* with three guard bits, shifted to a's exponent, and whether bits were lost.
Aligned(a, b) ==
    IF a.e - b.e >= MantBits + 3
    THEN [B |-> 0, st |-> TRUE]
    ELSE [B |-> (b.m * 8) \div 2^(a.e - b.e), st |-> (b.m * 8) % 2^(a.e - b.e) # 0]

\* a + b for finite a and b with |a| >= |b| > 0.
AddAligned(a, b) ==
    CHOOSE r \in
        {IF a.s = b.s
         THEN RoundF32(a.s, a.m * 8 + al.B, a.e - 3, al.st)
         ELSE IF a.m * 8 = al.B /\ ~al.st THEN F32Zero
         ELSE RoundF32(a.s, a.m * 8 - al.B - (IF al.st THEN 1 ELSE 0), a.e - 3, al.st)
         : al \in {Aligned(a, b)}} : TRUE

AddValues(a, b) ==
    IF a.k = "nan" \/ b.k = "nan" THEN F32NaN
    ELSE IF a.k = "inf" THEN (IF b.k = "inf" /\ b.s # a.s THEN F32NaN ELSE a)
    ELSE IF b.k = "inf" THEN b
    ELSE IF b.m = 0 THEN (IF a.m = 0 /\ a.s # b.s THEN F32Zero ELSE a)
    ELSE IF a.m = 0 THEN b
    ELSE CHOOSE r \in {AddAligned(p[1], p[2]) :
                          p \in {IF MagLess(a, b) THEN <<b, a>> ELSE <<a, b>>}} : TRUE

\* a + b
F32Add(a, b) == CHOOSE r \in {AddValues(x, y) : x \in {a}, y \in {b}} : TRUE

\* a - b
F32Sub(a, b) == F32Add(a, F32Neg(b))

\* The exact 48-bit product of two significands from their 12-bit limbs, as
\* its top 26 bits and whether any of the other 22 is set.
MulBits(am, bm) ==
    CHOOSE r \in
        {[top |-> (l.hh + l.mid \div 4096 + l.low \div 2^24) * 4 + (l.low % 2^24) \div 2^22,
          st  |-> (l.low % 2^24) % 2^22 # 0]
         : l \in {[hh  |-> (am \div 4096) * (bm \div 4096),
                   mid |-> (am \div 4096) * (bm % 4096) + (am % 4096) * (bm \div 4096),
                   low |-> (((am \div 4096) * (bm % 4096) + (am % 4096) * (bm \div 4096))
                            % 4096) * 4096 + (am % 4096) * (bm % 4096)]}} : TRUE

MulValues(a, b) ==
    IF a.k = "nan" \/ b.k = "nan" THEN F32NaN
    ELSE IF a.k = "inf" \/ b.k = "inf"
         THEN (IF IsZero(a) \/ IsZero(b) THEN F32NaN ELSE F32Inf((a.s + b.s) % 2))
    ELSE IF a.m = 0 \/ b.m = 0 THEN [F32Zero EXCEPT !.s = (a.s + b.s) % 2]
    ELSE CHOOSE r \in {RoundF32((a.s + b.s) % 2, p.top, a.e + b.e + 22, p.st) :
                          p \in {MulBits(a.m, b.m)}} : TRUE

\* a * b
F32Mul(a, b) == CHOOSE r \in {MulValues(x, y) : x \in {a}, y \in {b}} : TRUE

\* One long-division step: seven more bits of the quotient q of a remainder r
\* by bm.
DivStep(qr, bm) ==
    [q |-> qr.q * 128 + (qr.r * 128) \div bm, r |-> (qr.r * 128) % bm]

\* floor(am * 2^28 / bm) and the remainder, by four 7-bit steps.
DivBits(am, bm) ==
    CHOOSE r \in
       {s4 : s4 \in {DivStep(s3, bm) : s3 \in {DivStep(s2, bm) : s2 \in {DivStep(s1, bm) :
                s1 \in {DivStep(s0, bm) : s0 \in {[q |-> am \div bm, r |-> am % bm]}}}}}} : TRUE

DivValues(a, b) ==
    IF a.k = "nan" \/ b.k = "nan" THEN F32NaN
    ELSE IF a.k = "inf"
         THEN (IF b.k = "inf" THEN F32NaN ELSE F32Inf((a.s + b.s) % 2))
    ELSE IF b.k = "inf" THEN [F32Zero EXCEPT !.s = (a.s + b.s) % 2]
    ELSE IF b.m = 0
         THEN (IF a.m = 0 THEN F32NaN ELSE F32Inf((a.s + b.s) % 2))
    ELSE IF a.m = 0 THEN [F32Zero EXCEPT !.s = (a.s + b.s) % 2]
    ELSE CHOOSE r \in {RoundF32((a.s + b.s) % 2, d.q, a.e - b.e - 28, d.r # 0) :
                          d \in {DivBits(a.m, b.m)}} : TRUE

\* a / b
F32Div(a, b) == CHOOSE r \in {DivValues(x, y) : x \in {a}, y \in {b}} : TRUE

LeValues(a, b) ==
    IF a.k = "nan" \/ b.k = "nan" THEN FALSE
    ELSE IF a.k = "inf" THEN (a.s = 1 \/ (b.k = "inf" /\ b.s = 0))
    ELSE IF b.k = "inf" THEN b.s = 0
    ELSE IF a.m = 0 /\ b.m = 0 THEN TRUE
    ELSE IF a.s # b.s THEN (IF a.m = 0 THEN b.s = 0 ELSE a.s = 1)
    ELSE IF a.s = 0 THEN ~MagLess(b, a) ELSE ~MagLess(a, b)

\* a <= b (false when either is NaN).
F32Le(a, b) == \E x \in {a}, y \in {b} : LeValues(x, y)

\* The value a saturating cast to u32 gives for anything above the integers
\* of this model (u32::MAX itself is beyond them).
U32Saturated == 2147483647

CeilValue(a) ==
    IF a.k = "nan" THEN 0
    ELSE IF a.k = "inf" THEN (IF a.s = 1 THEN 0 ELSE U32Saturated)
    ELSE IF a.m = 0 \/ a.s = 1 THEN 0
    ELSE IF a.e >= 0 THEN (IF a.e > 6 THEN U32Saturated ELSE a.m * 2^a.e)
    ELSE IF -a.e >= MantBits THEN 1
    ELSE a.m \div 2^(-a.e) + (IF a.m % 2^(-a.e) # 0 THEN 1 ELSE 0)

\* `a.ceil() as u32`: the cast saturates (NaN and negatives give 0).
F32CeilAsU32(a) == CHOOSE r \in {CeilValue(x) : x \in {a}} : TRUE

\* 1.0
F32One == [k |-> "num", s |-> 0, m |-> 2^(MantBits - 1), e |-> 1 - MantBits]

\* 2.0
F32Two == [k |-> "num", s |-> 0, m |-> 2^(MantBits - 1), e |-> 2 - MantBits]

(***************************************************************************)
(* shapes.rs: the shape specification and the rasterizer.                  *)
(***************************************************************************)
ShapeType == {"Circle", "Sphere", "Cube", "SquarePyramid", "Cone", "Cylinder"}

\* struct Shape.
Shape(shape_type, width, height, depth) ==
    [shape_type |-> shape_type, width |-> width, height |-> height, depth |-> depth]

\* Shape::default(): ShapeType::default() is Cube, u32::default() is 0.
ShapeDefault == Shape("Cube", 0, 0, 0)

\* The concatenation of the sequences ss[i], ss[i + 1], ...
RECURSIVE FlattenFrom(_, _)
FlattenFrom(ss, i) ==
    IF i > Len(ss) THEN <<>> ELSE ss[i] \o FlattenFrom(ss, i + 1)

\* The concatenation of the sequences of ss (ss is evaluated once).
Flatten(ss) == CHOOSE r \in {FlattenFrom(s, 1) : s \in {ss}} : TRUE

\* Push with two coordinates exchanged.
PushSwapped(x, y, z) == <<x, z, y>>

\* voxels.push((x as i32, y as i32, z as i32)): the element pushed.
Push(x, y, z) == <<x, y, z>>

\* The (x, y, z) for which the body of the innermost loop runs: the ranges
\* 0..width, 0..ylimit and 0..depth exclude their ends.
LoopCells(width, ylimit, depth) ==
    {<<x, y, z>> : x \in 0..(width - 1), y \in 0..(ylimit - 1), z \in 0..(depth - 1)}

\* The three nested loops every generator runs, x outermost and z innermost,
\* with `ylimit` the end of the y range; include[<<x, y, z>>] is the condition
\* that guards the push.
Loops(width, ylimit, depth, include) ==
    Flatten([i \in 1..width |->
        Flatten([j \in 1..ylimit |->
            Flatten([k \in 1..depth |->
                IF include[<<i - 1, j - 1, k - 1>>]
                THEN <<Push(i - 1, j - 1, k - 1)>>
                ELSE <<>>])])])

Min(a, b) == IF a <= b THEN a ELSE b

\* u32::saturating_sub.
SaturatingSub(a, b) == IF a >= b THEN a - b ELSE 0

\* Center without the `- 1.0`.
CenterOfEdges(n) == F32Div(F32FromU32(n), F32Two)

\* (n as f32 - 1.0) / 2.0
Center(n) == F32Div(F32Sub(F32FromU32(n), F32One), F32Two)

\* n as f32 / 2.0
Radius(n) == F32Div(F32FromU32(n), F32Two)

\* (i as f32 - center) / radius
Normalized(i, center, radius) == F32Div(F32Sub(F32FromU32(i), center), radius)

F32Square(a) == F32Mul(a, a)

\* HeightFactor without the `1.0 -`.
HeightFactorRising(y, height) == F32Div(F32FromU32(y), F32FromU32(height))

\* 1.0 - (y as f32 / shape.height as f32)
HeightFactor(y, height) ==
    F32Sub(F32One, F32Div(F32FromU32(y), F32FromU32(height)))

\* generate_cube with inclusive ranges (0..=n).
generate_cube_inclusive(shape) ==
    Loops(shape.width + 1, shape.height + 1, shape.depth + 1,
          [c \in LoopCells(shape.width + 1, shape.height + 1, shape.depth + 1) |-> TRUE])

generate_cube(shape) ==
    Loops(shape.width, shape.height, shape.depth,
          [c \in LoopCells(shape.width, shape.height, shape.depth) |-> TRUE])

generate_sphere(shape) ==
    LET center_x == Center(shape.width)
        center_y == Center(shape.height)
        center_z == Center(shape.depth)
        radius_x == Radius(shape.width)
        radius_y == Radius(shape.height)
        radius_z == Radius(shape.depth)
    IN  Loops(shape.width, shape.height, shape.depth,
              [c \in LoopCells(shape.width, shape.height, shape.depth) |->
                  LET dx == Normalized(c[1], center_x, radius_x)
                      dy == Normalized(c[2], center_y, radius_y)
                      dz == Normalized(c[3], center_z, radius_z)
                  IN  F32Le(F32Add(F32Add(F32Square(dx), F32Square(dy)),
                                   F32Square(dz)),
                            F32One)])

\* The y range of generate_circle without the `.min(shape.height)`.
CircleLayersOne(shape) == 1

\* The end of generate_circle's y range: `1.min(shape.height)`.
CircleLayers(shape) == Min(1, shape.height)

generate_circle(shape) ==
    LET center_x == Center(shape.width)
        center_z == Center(shape.depth)
        radius_x == Radius(shape.width)
        radius_z == Radius(shape.depth)
    IN  Loops(shape.width, CircleLayers(shape), shape.depth,
              [c \in LoopCells(shape.width, CircleLayers(shape), shape.depth) |->
                  LET dx == Normalized(c[1], center_x, radius_x)
                      dz == Normalized(c[3], center_z, radius_z)
                  IN  F32Le(F32Add(F32Square(dx), F32Square(dz)), F32One)])

generate_cylinder(shape) ==
    LET center_x == Center(shape.width)
        center_z == Center(shape.depth)
        radius_x == Radius(shape.width)
        radius_z == Radius(shape.depth)
    IN  Loops(shape.width, shape.height, shape.depth,
              [c \in LoopCells(shape.width, shape.height, shape.depth) |->
                  LET dx == Normalized(c[1], center_x, radius_x)
                      dz == Normalized(c[3], center_z, radius_z)
                  IN  F32Le(F32Add(F32Square(dx), F32Square(dz)), F32One)])

generate_cone(shape) ==
    LET center_x == Center(shape.width)
        center_z == Center(shape.depth)
        radius_x == Radius(shape.width)
        radius_z == Radius(shape.depth)
    IN  Loops(shape.width, shape.height, shape.depth,
              [c \in LoopCells(shape.width, shape.height, shape.depth) |->
                  LET dx == Normalized(c[1], center_x, radius_x)
                      dz == Normalized(c[3], center_z, radius_z)
                      height_factor == HeightFactor(c[2], shape.height)
                  IN  F32Le(F32Add(F32Square(dx), F32Square(dz)),
                            F32Square(height_factor))])

\* Bound without the halving.
BoundUnhalved(n, height_factor) ==
    F32CeilAsU32(F32Mul(F32FromU32(n), height_factor))

\* (n as f32 * height_factor / 2.0).ceil() as u32
Bound(n, height_factor) ==
    F32CeilAsU32(F32Div(F32Mul(F32FromU32(n), height_factor), F32Two))

generate_square_pyramid(shape) ==
    Loops(shape.width, shape.height, shape.depth,
          [c \in LoopCells(shape.width, shape.height, shape.depth) |->
              LET height_factor == HeightFactor(c[2], shape.height)
                  width_bound == Bound(shape.width, height_factor)
                  depth_bound == Bound(shape.depth, height_factor)
                  center_x == shape.width \div 2
                  center_z == shape.depth \div 2
              IN  /\ c[1] >= SaturatingSub(center_x, width_bound)
                  /\ c[1] < center_x + width_bound
                  /\ c[3] >= SaturatingSub(center_z, depth_bound)
                  /\ c[3] < center_z + depth_bound])

generate_shape(shape) ==
    CASE shape.shape_type = "Cube" -> generate_cube(shape)
      [] shape.shape_type = "Sphere" -> generate_sphere(shape)
      [] shape.shape_type = "Circle" -> generate_circle(shape)
      [] shape.shape_type = "SquarePyramid" -> generate_square_pyramid(shape)
      [] shape.shape_type = "Cone" -> generate_cone(shape)
      [] shape.shape_type = "Cylinder" -> generate_cylinder(shape)

\* The divisors of the f32 divisions generate_shape(shape) evaluates: those of
\* the `let`s before the loops, and those of the loop body if it runs at all.
Divisors(shape) ==
    LET before == IF shape.shape_type \in {"Sphere", "Circle", "Cylinder", "Cone"}
                  THEN {F32Two} ELSE {}
        ylimit == IF shape.shape_type = "Circle" THEN CircleLayers(shape)
                  ELSE shape.height
        body   == CASE shape.shape_type = "Cube" -> {}
                    [] shape.shape_type = "Sphere" ->
                         {Radius(shape.width), Radius(shape.height), Radius(shape.depth)}
                    [] shape.shape_type \in {"Circle", "Cylinder"} ->
                         {Radius(shape.width), Radius(shape.depth)}
                    [] shape.shape_type = "Cone" ->
                         {Radius(shape.width), Radius(shape.depth),
                          F32FromU32(shape.height)}
                    [] shape.shape_type = "SquarePyramid" ->
                         {F32FromU32(shape.height), F32Two}
    IN  before \cup (IF LoopCells(shape.width, ylimit, shape.depth) = {} THEN {}
                     ELSE body)

\* #[derive(Default)] VoxelData: the default Shape and an empty Vec.
VoxelDataDefault == [shape |-> ShapeDefault, voxels |-> <<>>]

(***************************************************************************)
(* export.rs: the OBJ exporter.                                            *)
(***************************************************************************)
\* `n as f32` for an i32.
F32FromI32(n) == IF n < 0 THEN F32Neg(F32FromU32(-n)) ELSE F32FromU32(n)

\* `{}` of an f32 (Display: the shortest decimal that reads back the same).
\* Written out for the values the exporter prints, the multiples of 1/2; the
\* decimal digits of any other value are not modelled ("?").
FormatValue(a) ==
    IF a.k = "nan" THEN "NaN"
    ELSE IF a.k = "inf" THEN (IF a.s = 1 THEN "-inf" ELSE "inf")
    ELSE LET sign == IF a.s = 1 THEN "-" ELSE ""
         IN  IF a.m = 0 THEN sign \o "0"
             ELSE IF a.e >= 0
             THEN (IF a.e > 6 THEN "?" ELSE sign \o ToString(a.m * 2^a.e))
             ELSE IF -a.e > MantBits THEN "?"
             ELSE LET whole == a.m \div 2^(-a.e)
                      rest  == a.m % 2^(-a.e)
                  IN  IF rest = 0 THEN sign \o ToString(whole)
                      ELSE IF rest * 2 = 2^(-a.e)
                      THEN sign \o ToString(whole) \o ".5"
                      ELSE "?"

FormatF32(a) == CHOOSE r \in {FormatValue(x) : x \in {a}} : TRUE

\* `{:?}` of a ShapeType: #[derive(Debug)] prints the variant's name.
DebugShapeType(shape_type) == shape_type

\* The three header lines.
HeaderLines(shape) ==
    << [tag |-> "#", text |-> "3D Voxel Sculptor Export"],
       [tag |-> "#", text |-> "Shape: " \o DebugShapeType(shape.shape_type)],
       [tag |-> "#", text |-> "Dimensions: " \o ToString(shape.width) \o " x "
                              \o ToString(shape.height) \o " x "
                              \o ToString(shape.depth)] >>

\* Adjusted with the halving done on the integers.
AdjustedInt(i, n) == F32FromI32(i - n \div 2)

\* i as f32 - (n as f32 / 2.0)
Adjusted(i, n) == F32Sub(F32FromI32(i), F32Div(F32FromU32(n), F32Two))

\* A `v` line.
VertexLine(x, y, z) ==
    [tag |-> "v", x |-> FormatF32(x), y |-> FormatF32(y), z |-> FormatF32(z)]

\* The 8 `v` lines of one voxel at (x_adj, y_adj, z_adj).
CubeVertices(x_adj, y_adj, z_adj, x_one, y_one, z_one) ==
    << VertexLine(x_adj, y_adj, z_adj),
       VertexLine(x_one, y_adj, z_adj),
       VertexLine(x_one, y_adj, z_one),
       VertexLine(x_adj, y_adj, z_one),
       VertexLine(x_adj, y_one, z_adj),
       VertexLine(x_one, y_one, z_adj),
       VertexLine(x_one, y_one, z_one),
       VertexLine(x_adj, y_one, z_one) >>

\* The 8 `v` lines of one voxel whose adjusted coordinates are adj:
\* x_adj + 1.0 and the like are computed where the line is written.
AdjustedVertices(adj) ==
    CHOOSE r \in
        {CubeVertices(adj[1], adj[2], adj[3], x_one, y_one, z_one) :
            x_one \in {F32Add(adj[1], F32One)},
            y_one \in {F32Add(adj[2], F32One)},
            z_one \in {F32Add(adj[3], F32One)}} : TRUE

\* The 8 `v` lines of one voxel.
VertexLines(shape, voxel) ==
    CHOOSE r \in
        {AdjustedVertices(adj) :
            adj \in {<<Adjusted(voxel[1], shape.width),
                       Adjusted(voxel[2], shape.height),
                       Adjusted(voxel[3], shape.depth)>>}} : TRUE

\* An `f` line.
FaceLine(a, b, c) == [tag |-> "f", a |-> a, b |-> b, c |-> c]

\* FaceLines with the first triangle of the top face in the opposite order.
FaceLinesTopReversed(vertex_index) ==
    << FaceLine(vertex_index, vertex_index + 1, vertex_index + 2),
       FaceLine(vertex_index, vertex_index + 2, vertex_index + 3),
       FaceLine(vertex_index + 4, vertex_index + 6, vertex_index + 7),
       FaceLine(vertex_index + 4, vertex_index + 6, vertex_index + 5),
       FaceLine(vertex_index, vertex_index + 4, vertex_index + 5),
       FaceLine(vertex_index, vertex_index + 5, vertex_index + 1),
       FaceLine(vertex_index + 3, vertex_index + 2, vertex_index + 6),
       FaceLine(vertex_index + 3, vertex_index + 6, vertex_index + 7),
       FaceLine(vertex_index, vertex_index + 3, vertex_index + 7),
       FaceLine(vertex_index, vertex_index + 7, vertex_index + 4),
       FaceLine(vertex_index + 1, vertex_index + 5, vertex_index + 6),
       FaceLine(vertex_index + 1, vertex_index + 6, vertex_index + 2) >>

\* The 12 `f` lines of one voxel.
FaceLines(vertex_index) ==
    << FaceLine(vertex_index, vertex_index + 1, vertex_index + 2),
       FaceLine(vertex_index, vertex_index + 2, vertex_index + 3),
       FaceLine(vertex_index + 4, vertex_index + 7, vertex_index + 6),
       FaceLine(vertex_index + 4, vertex_index + 6, vertex_index + 5),
       FaceLine(vertex_index, vertex_index + 4, vertex_index + 5),
       FaceLine(vertex_index, vertex_index + 5, vertex_index + 1),
       FaceLine(vertex_index + 3, vertex_index + 2, vertex_index + 6),
       FaceLine(vertex_index + 3, vertex_index + 6, vertex_index + 7),
       FaceLine(vertex_index, vertex_index + 3, vertex_index + 7),
       FaceLine(vertex_index, vertex_index + 7, vertex_index + 4),
       FaceLine(vertex_index + 1, vertex_index + 5, vertex_index + 6),
       FaceLine(vertex_index + 1, vertex_index + 6, vertex_index + 2) >>

\* VoxelLines with the faces written before the vertices.
VoxelLinesFacesFirst(shape, voxel, vertex_index) ==
    FaceLines(vertex_index) \o VertexLines(shape, voxel)

\* One iteration of the voxel loop: the lines it writes.
VoxelLines(shape, voxel, vertex_index) ==
    VertexLines(shape, voxel) \o FaceLines(vertex_index)

\* The loop without the `vertex_index += 8`.
KeepVertexIndex(vertex_index) == vertex_index

\* vertex_index += 8
AdvanceVertexIndex(vertex_index) == vertex_index + 8

\* `for &(x, y, z) in &voxel_data.voxels`, from the i-th voxel on.
RECURSIVE VoxelLoop(_, _, _)
VoxelLoop(voxel_data, i, vertex_index) ==
    IF i > Len(voxel_data.voxels) THEN <<>>
    ELSE VoxelLines(voxel_data.shape, voxel_data.voxels[i], vertex_index)
         \o VoxelLoop(voxel_data, i + 1, AdvanceVertexIndex(vertex_index))

\* Every line export_to_obj writes when no write fails, in order
\* (voxel_data is evaluated once).
ObjLines(voxel_data) ==
    CHOOSE r \in {HeaderLines(vd.shape) \o VoxelLoop(vd, 1, 1) : vd \in {voxel_data}} : TRUE

\* The file exported_shape.obj.  export_to_obj writes nothing but the lines of
\* one VoxelData, from the first on, so the file is kept as that VoxelData
\* (`source`) and how far the writing got: all of the lines (`complete`), or
\* the first `written` of them, followed, when `torn`, by a part of the next
\* line (writeln! on an unbuffered File issues several writes per line, so a
\* failure can leave a line half written).  FileLines gives the complete lines
\* the file holds.
NoFile ==
    [exists |-> FALSE, source |-> VoxelDataDefault, complete |-> FALSE,
     written |-> 0, torn |-> FALSE]

CompleteFile(voxel_data) ==
    [exists |-> TRUE, source |-> voxel_data, complete |-> TRUE,
     written |-> 0, torn |-> FALSE]

FileLines(f) ==
    IF ~f.exists THEN <<>>
    ELSE IF f.complete THEN ObjLines(f.source)
    ELSE SubSeq(ObjLines(f.source), 1, f.written)

\* export_to_obj with the results of its writeln!s dropped instead of `?`.
export_to_obj_unchecked(voxel_data, old_file, fail_at, torn) ==
    IF fail_at = 0
    THEN [ret |-> "Ok", file |-> CompleteFile(voxel_data)]
    ELSE IF fail_at = 1
    THEN [ret |-> "Err", file |-> old_file]
    ELSE [ret |-> "Ok",
          file |-> [exists |-> TRUE, source |-> voxel_data, complete |-> FALSE,
                    written |-> fail_at - 2, torn |-> torn]]

\* export_to_obj.  Its I/O operations are File::create and then one writeln!
\* per line, each followed by `?`.  fail_at says which of them fails: 0 none,
\* 1 File::create, k + 1 the k-th writeln!.  A failed File::create leaves the
\* file as it was; a successful one truncates it.  `torn`: whether the failing
\* writeln! got part of its line out.
export_to_obj(voxel_data, old_file, fail_at, torn) ==
    IF fail_at = 0
    THEN [ret |-> "Ok", file |-> CompleteFile(voxel_data)]
    ELSE IF fail_at = 1
    THEN [ret |-> "Err", file |-> old_file]
    ELSE [ret |-> "Err",
          file |-> [exists |-> TRUE, source |-> voxel_data, complete |-> FALSE,
                    written |-> fail_at - 2, torn |-> torn]]

(***************************************************************************)
(* ui.rs: the control panel.                                               *)
(***************************************************************************)
\* The error message of a generation that produced nothing.
NoVoxelsMessage == "Failed to generate shape: no voxels created"

\* UiState::default().
UiStateDefault ==
    [width |-> 5, height |-> 5, depth |-> 5, shape_type |-> "Cube",
     generate |-> TRUE, export |-> FALSE, error_message |-> "None"]

\* The widgets of the side panel, run on one frame's input: the sliders and
\* the combo box write the value the user set, the buttons raise their flag.
SidePanel(ui, input) ==
    CASE input.kind = "width" -> [ui EXCEPT !.width = input.value]
      [] input.kind = "height" -> [ui EXCEPT !.height = input.value]
      [] input.kind = "depth" -> [ui EXCEPT !.depth = input.value]
      [] input.kind = "shape_type" -> [ui EXCEPT !.shape_type = input.value]
      [] input.kind = "generate" -> [ui EXCEPT !.generate = TRUE]
      [] input.kind = "export" -> [ui EXCEPT !.export = TRUE]
      [] OTHER -> ui

\* Regenerate storing the new shape and leaving the voxels as they were.
RegenerateShapeOnly(ui, old_voxel_data) ==
    [shape |-> Shape(ui.shape_type, ui.width, ui.height, ui.depth),
     voxels |-> old_voxel_data.voxels]

\* The body of `if ui_state.generate`: the new VoxelData.
Regenerate(ui, old_voxel_data) ==
    CHOOSE r \in {[shape |-> s, voxels |-> generate_shape(s)] :
                     s \in {Shape(ui.shape_type, ui.width, ui.height, ui.depth)}} : TRUE

\* The body of `if ui_state.generate`: the new UiState.
AfterGenerate(ui, new_voxel_data) ==
    [ui EXCEPT !.error_message =
                   IF new_voxel_data.voxels = <<>> THEN NoVoxelsMessage ELSE "None",
               !.generate = FALSE]

\* Whether this frame calls export_to_obj: `if ui_state.export`.
CallsExport(ui) == ui.export

(***************************************************************************)
(* State.                                                                  *)
(***************************************************************************)
VARIABLES
    shape,       \* the argument of the generate_shape call under way
    voxels,      \* what that call returned
    pc,          \* "call" before the call under way has run, "return" after
    voxel_data,  \* the VoxelData resource
    ui_state,    \* the UiState resource
    file,        \* exported_shape.obj
    ret,         \* what the last export_to_obj call returned ("none": no call)
    frame,       \* the last draw_ui frame: its input, whether it called
                 \* export_to_obj, and what the call returned
    frames       \* the number of draw_ui frames so far

vars == <<shape, voxels, pc, voxel_data, ui_state, file, ret, frame, frames>>

NoFrame == [input |-> [kind |-> "none"], exported |-> FALSE, ret |-> "none"]

(***************************************************************************)
(* SpecGen: one call of generate_shape on any shape within MaxDim.         *)
(***************************************************************************)
Dims == 0..MaxDim

InitGen ==
    /\ shape \in {Shape(t, w, h, d) : t \in ShapeType, w \in Dims, h \in Dims, d \in Dims}
    /\ voxels = <<>>
    /\ pc = "call"
    /\ voxel_data = VoxelDataDefault
    /\ ui_state = UiStateDefault
    /\ file = NoFile
    /\ ret = "none"
    /\ frame = NoFrame
    /\ frames = 0

CallGenerateShape ==
    /\ pc = "call"
    /\ voxels' = generate_shape(shape)
    /\ pc' = "return"
    /\ UNCHANGED <<shape, voxel_data, ui_state, file, ret, frame, frames>>

NextGen == CallGenerateShape

SpecGen == InitGen /\ [][NextGen]_vars

\* The grid of a shape.
Grid(s) == LoopCells(s.width, s.height, s.depth)

\* a before b in lexicographic (x, y, z) order.
LexLess(a, b) ==
    \/ a[1] < b[1]
    \/ a[1] = b[1] /\ a[2] < b[2]
    \/ a[1] = b[1] /\ a[2] = b[2] /\ a[3] < b[3]

\* C1: for width, height, depth >= 1, generate_shape of a Cube returns exactly
\* width * height * depth triples, and every cell of the grid appears in the
\* result exactly once.
C1_CubeFillsGrid ==
    (pc = "return" /\ shape.shape_type = "Cube"
        /\ shape.width >= 1 /\ shape.height >= 1 /\ shape.depth >= 1)
    => /\ Len(voxels) = shape.width * shape.height * shape.depth
       /\ \A c \in Grid(shape) :
             Cardinality({i \in 1..Len(voxels) : voxels[i] = c}) = 1

\* The Cube 2 x 1 x 1 has returned (0,0,0), (1,0,0), in that order.
C1_Witness ==
    /\ pc = "return"
    /\ shape = Shape("Cube", 2, 1, 1)
    /\ voxels = << <<0, 0, 0>>, <<1, 0, 0>> >>

\* C2: for every kind and all dimensions, every triple generate_shape returns
\* lies in the grid, no triple repeats, and the triples are in strictly
\* increasing lexicographic (x, y, z) order: the result is a subsequence of
\* the x-major enumeration of the grid.
C2_XMajorSubsequence ==
    pc = "return"
    => /\ \A i \in 1..Len(voxels) : voxels[i] \in Grid(shape)
       /\ \A i \in 1..Len(voxels), j \in 1..Len(voxels) :
             i # j => voxels[i] # voxels[j]
       /\ \A i \in 1..(Len(voxels) - 1) : LexLess(voxels[i], voxels[i + 1])

\* A Cylinder of unequal dimensions has returned a proper, non-empty part of
\* its grid with more than one value of each coordinate.
C2_Witness ==
    /\ pc = "return"
    /\ shape = Shape("Cylinder", 4, 2, 3)
    /\ Len(voxels) > 1
    /\ Len(voxels) < 4 * 2 * 3
    /\ \E i \in 1..Len(voxels), j \in 1..Len(voxels) :
          /\ voxels[i][1] # voxels[j][1]
          /\ voxels[i][2] # voxels[j][2]
          /\ voxels[i][3] # voxels[j][3]

\* C3: for every kind, if width, height or depth is 0 then generate_shape
\* returns the empty sequence, and none of the divisions it evaluates has a
\* zero divisor (in particular for Cone and SquarePyramid of height 0).
C3_ZeroDimensionEmpty ==
    (pc = "return" /\ (shape.width = 0 \/ shape.height = 0 \/ shape.depth = 0))
    => /\ voxels = <<>>
       /\ \A d \in Divisors(shape) : ~IsZero(d)

\* generate_shape has returned for Cones, SquarePyramids and Circles of
\* height 0 whose other dimensions are not 0.
C3_Witness ==
    /\ pc = "return"
    /\ shape.shape_type \in {"Cone", "SquarePyramid", "Circle"}
    /\ shape.height = 0
    /\ shape.width > 0
    /\ shape.depth > 0
    /\ voxels = <<>>

\* The (x, z) cells of the layer y of a result.
Layer(vs, y) == {<<vs[i][1], vs[i][3]>> : i \in {j \in 1..Len(vs) : vs[j][2] = y}}

\* The bounds of the SquarePyramid 5 x 5 x 5: 3 at y = 0 and 1 at y = 4.
PyramidBounds5 ==
    /\ Bound(5, HeightFactor(0, 5)) = 3
    /\ Bound(5, HeightFactor(4, 5)) = 1

\* C10 as stated: for the SquarePyramid 5 x 5 x 5 the bounds are 3 at y = 0
\* and 1 at y = 4, and the layer y = 4 of the result is a single (x, z) cell.
C10_SingleColumnApex ==
    (pc = "return" /\ shape = Shape("SquarePyramid", 5, 5, 5))
    => /\ PyramidBounds5
       /\ Cardinality(Layer(voxels, 4)) = 1

\* C10, amended: for the SquarePyramid 5 x 5 x 5 the bounds are 3 at y = 0 and
\* 1 at y = 4, and the layer y = 4 of the result is the 2 x 2 block of the
\* cells with x and z in 1..2, the half-open range [2 - 1, 2 + 1) around the
\* center cell 2.
C10_TwoByTwoApex ==
    (pc = "return" /\ shape = Shape("SquarePyramid", 5, 5, 5))
    => /\ PyramidBounds5
       /\ Layer(voxels, 4) = {<<1, 1>>, <<1, 2>>, <<2, 1>>, <<2, 2>>}

\* generate_shape has returned for the SquarePyramid 5 x 5 x 5, with cells in
\* the layers y = 0 and y = 4.
C10_Witness ==
    /\ pc = "return"
    /\ shape = Shape("SquarePyramid", 5, 5, 5)
    /\ Layer(voxels, 0) # {}
    /\ Layer(voxels, 4) # {}

\* C11: for Cone and SquarePyramid and all width, height, depth >= 1 the
\* layers narrow with height: for every y with 0 <= y < height - 1, the (x, z)
\* cells of the layer y + 1 are a subset of those of the layer y.
C11_LayersNarrow ==
    (pc = "return" /\ shape.shape_type \in {"Cone", "SquarePyramid"}
        /\ shape.width >= 1 /\ shape.height >= 1 /\ shape.depth >= 1)
    => \A y \in 0..(shape.height - 2) : Layer(voxels, y + 1) \subseteq Layer(voxels, y)

\* generate_shape has returned for a Cone or a SquarePyramid whose top layer
\* is not empty and is narrower than the bottom layer.
C11_Witness ==
    /\ pc = "return"
    /\ shape \in {Shape("Cone", 5, 5, 5), Shape("SquarePyramid", 4, 3, 5)}
    /\ Layer(voxels, shape.height - 1) # {}
    /\ Layer(voxels, shape.height - 1) # Layer(voxels, 0)
    /\ Layer(voxels, shape.height - 1) \subseteq Layer(voxels, 0)

\* The UiState whose sliders and combo box show the shape s, Generate clicked.
UiStateOf(s) ==
    [UiStateDefault EXCEPT !.shape_type = s.shape_type, !.width = s.width,
                           !.height = s.height, !.depth = s.depth,
                           !.generate = TRUE]

\* C12: for every kind and all width, height, depth >= 1 (what the sliders
\* allow) generate_shape returns at least one voxel, so the generate block of
\* draw_ui leaves no error message for that shape.
C12_SliderShapesNotEmpty ==
    (pc = "return" /\ shape.width >= 1 /\ shape.height >= 1 /\ shape.depth >= 1)
    => /\ voxels # <<>>
       /\ AfterGenerate(UiStateOf(shape),
                        [shape |-> shape, voxels |-> voxels]).error_message = "None"

\* generate_shape has returned the one cell of a 1 x 1 x 1 shape that is not
\* a Cube, and the generate block leaves no error message for it.
C12_Witness ==
    /\ pc = "return"
    /\ shape.shape_type # "Cube"
    /\ shape.width = 1 /\ shape.height = 1 /\ shape.depth = 1
    /\ voxels = << <<0, 0, 0>> >>
    /\ AfterGenerate(UiStateOf(shape),
                     [shape |-> shape, voxels |-> voxels]).error_message = "None"

(***************************************************************************)
(* SpecExport: one call of export_to_obj on the VoxelData of any shape     *)
(* within MaxExportDim, over any of the prior files, failing at any of its *)
(* I/O operations up to MaxFailAt or at none.                              *)
(***************************************************************************)
\* Largest width, height and depth of an exported model.
MaxExportDim == 2

\* The sliders keep every dimension of a generated model at 1 or more.
ExportDims == 1..MaxExportDim

VoxelDataOf(s) == [shape |-> s, voxels |-> generate_shape(s)]

\* The files export_to_obj may find: none, and two earlier complete exports.
PriorFiles ==
    {NoFile}
    \cup {CompleteFile(VoxelDataOf(s)) :
             s \in {Shape("Cube", 1, 1, 1), Shape("Cylinder", 2, 1, 2)}}

\* The last I/O operation whose failure is tried: File::create, the header,
\* the first voxel's 20 lines and the line after them.
MaxFailAt == 25

InitExport ==
    /\ voxel_data \in {VoxelDataOf(Shape(t, w, h, d)) :
                          t \in ShapeType, w \in ExportDims, h \in ExportDims,
                          d \in ExportDims}
    /\ file \in PriorFiles
    /\ ret = "none"
    /\ pc = "call"
    /\ shape = ShapeDefault
    /\ voxels = <<>>
    /\ ui_state = UiStateDefault
    /\ frame = NoFrame
    /\ frames = 0

CallExportToObj ==
    /\ pc = "call"
    /\ \E fail_at \in 0..Min(MaxFailAt, 1 + Len(ObjLines(voxel_data))) :
       \E torn \in (IF fail_at >= 2 THEN BOOLEAN ELSE {FALSE}) :
       \E r \in {export_to_obj(voxel_data, file, fail_at, torn)} :
          /\ ret' = r.ret
          /\ file' = r.file
    /\ pc' = "return"
    /\ UNCHANGED <<shape, voxels, voxel_data, ui_state, frame, frames>>

NextExport == CallExportToObj

SpecExport == InitExport /\ [][NextExport]_vars

\* An export_to_obj call has returned Ok.
Exported == pc = "return" /\ ret = "Ok"

\* The first line of the k-th voxel block (k from 0) is line BlockStart(k) + 1.
BlockStart(k) == 3 + 20 * k

\* C5: a successful export_to_obj of N voxels leaves 3 + 20 N lines: the
\* banner, the shape kind and the dimensions, in that order, then N blocks of
\* exactly 8 `v` lines immediately followed by exactly 12 `f` lines.
C5_LineCounts ==
    Exported
    => LET lines == FileLines(file)
           N     == Len(voxel_data.voxels)
       IN  /\ Len(lines) = 3 + 20 * N
           /\ Cardinality({i \in 1..Len(lines) : lines[i].tag = "v"}) = 8 * N
           /\ Cardinality({i \in 1..Len(lines) : lines[i].tag = "f"}) = 12 * N
           /\ lines[1] = [tag |-> "#", text |-> "3D Voxel Sculptor Export"]
           /\ lines[2] = [tag |-> "#",
                          text |-> "Shape: " \o voxel_data.shape.shape_type]
           /\ lines[3] = [tag |-> "#",
                          text |-> "Dimensions: "
                                   \o ToString(voxel_data.shape.width) \o " x "
                                   \o ToString(voxel_data.shape.height) \o " x "
                                   \o ToString(voxel_data.shape.depth)]
           /\ \A k \in 0..(N - 1) :
                 /\ \A j \in 1..8 : lines[BlockStart(k) + j].tag = "v"
                 /\ \A j \in 9..20 : lines[BlockStart(k) + j].tag = "f"

\* An export of more than one voxel has returned Ok.
C5_Witness ==
    /\ Exported
    /\ Len(voxel_data.voxels) > 1
    /\ Len(FileLines(file)) = 3 + 20 * Len(voxel_data.voxels)

\* The cube-local offsets of the 8 vertices, in the order they are written.
Offsets ==
    << <<0, 0, 0>>, <<1, 0, 0>>, <<1, 0, 1>>, <<0, 0, 1>>,
       <<0, 1, 0>>, <<1, 1, 0>>, <<1, 1, 1>>, <<0, 1, 1>> >>

\* The decimal of h / 2 for an integer h.
HalfDecimal(h) ==
    IF h % 2 = 0 THEN ToString(h \div 2)
    ELSE IF h < 0 THEN "-" \o ToString((-h) \div 2) \o ".5"
    ELSE ToString(h \div 2) \o ".5"

\* The `v` line of the vertex voxel + offset - (width/2, height/2, depth/2).
CenteredVertex(s, voxel, offset) ==
    [tag |-> "v",
     x |-> HalfDecimal(2 * (voxel[1] + offset[1]) - s.width),
     y |-> HalfDecimal(2 * (voxel[2] + offset[2]) - s.height),
     z |-> HalfDecimal(2 * (voxel[3] + offset[3]) - s.depth)]

\* C6: in a successful export the k-th block (k from 0) describes the k-th
\* voxel: its 8 vertices are (x, y, z) - (width/2, height/2, depth/2) plus the
\* offsets (0,0,0), (1,0,0), (1,0,1), (0,0,1), (0,1,0), (1,1,0), (1,1,1),
\* (0,1,1), in that order; for the Cube 1 x 1 x 1 the first vertex line is
\* v -0.5 -0.5 -0.5.
C6_CenteredVertices ==
    Exported
    => LET lines == FileLines(file)
       IN  /\ \A k \in 0..(Len(voxel_data.voxels) - 1), j \in 1..8 :
                 lines[BlockStart(k) + j]
                    = CenteredVertex(voxel_data.shape, voxel_data.voxels[k + 1],
                                     Offsets[j])
           /\ voxel_data.shape = Shape("Cube", 1, 1, 1)
              => lines[4] = [tag |-> "v", x |-> "-0.5", y |-> "-0.5", z |-> "-0.5"]

\* The export of the Cube 1 x 1 x 1 has returned Ok, its first vertex line
\* written.
C6_Witness ==
    /\ Exported
    /\ voxel_data.shape = Shape("Cube", 1, 1, 1)
    /\ voxel_data.voxels = << <<0, 0, 0>> >>
    /\ FileLines(file)[4].tag = "v"

\* C7: in a successful export every face line of the k-th block (k from 0)
\* references only the vertex indices 8k + 1 .. 8k + 8, and the base of the
\* block, the first index of its first face, is 8k + 1: it starts from 1 and
\* advances by exactly 8 per voxel.
C7_FaceIndices ==
    Exported
    => LET lines == FileLines(file)
       IN  \A k \in 0..(Len(voxel_data.voxels) - 1) :
              /\ \A j \in 9..20 :
                    {lines[BlockStart(k) + j].a, lines[BlockStart(k) + j].b,
                     lines[BlockStart(k) + j].c} \subseteq (8 * k + 1)..(8 * k + 8)
              /\ lines[BlockStart(k) + 9].a = 8 * k + 1

\* An export of at least three voxels has returned Ok, the third block's
\* faces written.
C7_Witness ==
    /\ Exported
    /\ Len(voxel_data.voxels) >= 3
    /\ FileLines(file)[BlockStart(2) + 9].tag = "f"

\* The file holds exactly the lines of the model vd.
HoldsComplete(f, vd) == f.exists /\ ~f.torn /\ FileLines(f) = ObjLines(vd)

\* What the file holds (a missing file holds nothing) is a proper prefix of
\* the lines of the model vd, possibly with a part of the next line after it.
HoldsProperPrefix(f, vd) ==
    \E held \in {FileLines(f)}, all \in {ObjLines(vd)} :
       /\ Len(held) < Len(all)
       /\ held = SubSeq(all, 1, Len(held))
       /\ f.torn => f.exists

\* C8 as stated: every export_to_obj call returns Ok with the file holding
\* exactly the complete lines of the model, or returns an error with the file
\* holding a proper prefix of them.
C8_CompleteOrProperPrefix ==
    pc = "return"
    => \/ ret = "Ok" /\ HoldsComplete(file, voxel_data)
       \/ ret = "Err" /\ HoldsProperPrefix(file, voxel_data)

\* C8, amended: every export_to_obj call returns Ok with the file holding
\* exactly the complete lines of the model (whatever it held before), or
\* returns an error with the file either left as it was before the call
\* (File::create failed) or holding a proper prefix of the complete lines;
\* Ok is never returned with an incomplete file.
C8_CompleteOrUntouchedOrPrefix ==
    [][(pc = "call" /\ pc' = "return")
       => \/ ret' = "Ok" /\ HoldsComplete(file', voxel_data)
          \/ /\ ret' = "Err"
             /\ file' = file \/ HoldsProperPrefix(file', voxel_data)]_vars

\* An export has failed after writing its header and five more lines.
C8_Witness ==
    /\ pc = "return"
    /\ ret = "Err"
    /\ file.exists
    /\ Len(FileLines(file)) = 8
    /\ HoldsProperPrefix(file, voxel_data)

\* The integer h whose half a coordinate of a `v` line spells.
HalfUnits(decimal) ==
    CHOOSE h \in (-2 * MaxExportDim)..(2 * MaxExportDim) : HalfDecimal(h) = decimal

IsVertexLine(line) == line.tag = "v"

\* The positions, in half units, of the vertices of a file in the order of
\* their `v` lines: an `f` line refers to them by their place in this order.
VertexPositions(lines) ==
    [n \in 1..Len(SelectSeq(lines, IsVertexLine)) |->
        <<HalfUnits(SelectSeq(lines, IsVertexLine)[n].x),
          HalfUnits(SelectSeq(lines, IsVertexLine)[n].y),
          HalfUnits(SelectSeq(lines, IsVertexLine)[n].z)>>]

\* (b - a) x (c - a)
Normal(a, b, c) ==
    << (b[2] - a[2]) * (c[3] - a[3]) - (b[3] - a[3]) * (c[2] - a[2]),
       (b[3] - a[3]) * (c[1] - a[1]) - (b[1] - a[1]) * (c[3] - a[3]),
       (b[1] - a[1]) * (c[2] - a[2]) - (b[2] - a[2]) * (c[1] - a[1]) >>

\* The six faces of a cube: an axis and the side of the centre it lies on.
CubeFaces == (1..3) \X {-1, 1}

\* The vertices of the cube `corners` that lie on its face.
FaceCorners(corners, face) ==
    {p \in corners :
        \A q \in corners : (p[face[1]] - q[face[1]]) * face[2] >= 0}

\* The triangle a, b, c lies on the face of the cube and is wound so that
\* (b - a) x (c - a) points along the face's axis, away from the centre.
WoundOutward(corners, face, a, b, c) ==
    /\ {a, b, c} \subseteq FaceCorners(corners, face)
    /\ Cardinality({a, b, c}) = 3
    /\ \A axis \in 1..3 :
          IF axis = face[1] THEN Normal(a, b, c)[axis] * face[2] > 0
          ELSE Normal(a, b, c)[axis] = 0

\* The triangles of the voxel block k of a file with the vertices vs, as
\* triples of positions.
BlockTriangles(lines, vs, k) ==
    {<<vs[lines[BlockStart(k) + j].a], vs[lines[BlockStart(k) + j].b],
       vs[lines[BlockStart(k) + j].c]>> : j \in 9..20}

\* C13: in a successful export the 12 triangles of every voxel are wound
\* outward: each lies on one face of the voxel's cube with (b - a) x (c - a)
\* pointing away from the cube's centre along that face's axis, and each of
\* the 6 faces is covered by exactly two of the 12 triangles.
C13_OutwardWinding ==
    Exported
    => \E lines \in {FileLines(file)} : \E vs \in {VertexPositions(lines)} :
       \A k \in 0..(Len(voxel_data.voxels) - 1) :
       \E corners \in {{vs[8 * k + i] : i \in 1..8}} :
       \E ts \in {BlockTriangles(lines, vs, k)} :
          /\ Cardinality(corners) = 8
          /\ Cardinality(ts) = 12
          /\ \A t \in ts : \E face \in CubeFaces :
                WoundOutward(corners, face, t[1], t[2], t[3])
          /\ \A face \in CubeFaces :
                \E on \in {{t \in ts : WoundOutward(corners, face, t[1], t[2], t[3])}} :
                   /\ Cardinality(on) = 2
                   /\ UNION {{t[1], t[2], t[3]} : t \in on}
                         = FaceCorners(corners, face)

\* An export of more than one voxel has returned Ok, and the first triangle
\* of the top face of its second voxel has the normal (0, 4, 0) in half units.
C13_Witness ==
    /\ Exported
    /\ Len(voxel_data.voxels) > 1
    /\ \E lines \in {FileLines(file)} : \E vs \in {VertexPositions(lines)} :
          Normal(vs[lines[BlockStart(1) + 11].a], vs[lines[BlockStart(1) + 11].b],
                 vs[lines[BlockStart(1) + 11].c]) = <<0, 4, 0>>

(***************************************************************************)
(* SpecUi: the frames of draw_ui, from the default resources.              *)
(***************************************************************************)
\* Largest value a slider is moved to (the sliders allow 1..=32).
MaxUiDim == 2

\* The number of frames followed.
MaxFrames == 2

\* What the user does in one frame: nothing, or one thing to one widget.
\* "close" is the Close button of the export window, which is on screen only
\* while ui_state.export is set.
Inputs(ui) ==
    {[kind |-> "none"], [kind |-> "generate"], [kind |-> "export"]}
    \cup {[kind |-> k, value |-> n] : k \in {"width", "height", "depth"}, n \in 1..MaxUiDim}
    \cup {[kind |-> "shape_type", value |-> t] : t \in ShapeType}
    \cup (IF ui.export THEN {[kind |-> "close"]} ELSE {})

InitUi ==
    /\ ui_state = UiStateDefault
    /\ voxel_data = VoxelDataDefault
    /\ file = NoFile
    /\ ret = "none"
    /\ frame = NoFrame
    /\ frames = 0
    /\ shape = ShapeDefault
    /\ voxels = <<>>
    /\ pc = "call"

\* draw_ui: one frame.  export_to_obj, when called, fails at File::create, at
\* its first writeln!, or not at all.
DrawUi ==
    /\ frames < MaxFrames
    /\ \E input \in Inputs(ui_state) :
       \E ui1 \in {SidePanel(ui_state, input)} :
       \E vd \in {IF ui1.generate THEN Regenerate(ui1, voxel_data) ELSE voxel_data} :
       \E ui2 \in {IF ui1.generate THEN AfterGenerate(ui1, vd) ELSE ui1} :
          /\ voxel_data' = vd
          /\ IF CallsExport(ui2)
             THEN \E fail_at \in {0, 1, 2}, torn \in BOOLEAN :
                  \E r \in {export_to_obj(vd, file, fail_at, torn)} :
                     /\ file' = r.file
                     /\ ret' = r.ret
                     /\ frame' = [input |-> input, exported |-> TRUE, ret |-> r.ret]
                     /\ ui_state' = IF input.kind = "close"
                                    THEN [ui2 EXCEPT !.export = FALSE]
                                    ELSE ui2
             ELSE /\ UNCHANGED <<file, ret>>
                  /\ frame' = [input |-> input, exported |-> FALSE, ret |-> "none"]
                  /\ ui_state' = ui2
    /\ frames' = frames + 1
    /\ UNCHANGED <<shape, voxels, pc>>

NextUi == DrawUi

SpecUi == InitUi /\ [][NextUi]_vars

\* C4: between draw_ui calls the VoxelData is never torn: its voxels are
\* generate_shape of its shape, from the default VoxelData on and after every
\* regeneration, whatever the sliders and the buttons did.
C4_VoxelDataNotTorn == voxel_data.voxels = generate_shape(voxel_data.shape)

\* After a regeneration the user has moved a slider without generating: the
\* VoxelData is that of the shape generated, not of the shape on the sliders.
C4_Witness ==
    /\ frames = 2
    /\ voxel_data.voxels # <<>>
    /\ voxel_data.shape.width # ui_state.width
    /\ ~ui_state.generate

\* C9: after a frame in which export_to_obj returned an error, a frame calls
\* export_to_obj only if the user clicked Export in it: a failed export is not
\* retried.
C9_FailedExportNotRetried ==
    [][(frame.exported /\ frame.ret = "Err" /\ frame'.exported)
       => frame'.input.kind = "export"]_vars

=============================================================================
